---------------------------- MODULE Spec2Model ----------------------------
(***************************************************************************)
(* Model of pubtools._impl.pluggy: the process-wide plugin manager `pm`,   *)
(* hook discovery (resolve_hooks) and the task lifecycle context manager   *)
(* (task_context) with its task_start / task_stop hook dispatches.         *)
(*                                                                         *)
(* A session is one execution of `with task_context(): <block>`.  Sessions *)
(* run one after another or nested (a block entering task_context again).  *)
(* Hook implementations and the protected block are third-party code:      *)
(* what they do is a nondeterministic choice at the step that runs them.   *)
(***************************************************************************)
EXTENDS Integers, Sequences, FiniteSets, TLC

(* ------------------------------ bounds --------------------------------- *)

\* Depth of nesting of sessions (a block entering task_context again).
MaxDepth == 2

\* Number of sessions entered in one run of the process.
MaxSessions == 3

(* --------------------------- installed packages ------------------------ *)

\* Modules named by installed entry points.
Modules == {"pubtools_quay", "othertool", "hookmod"}

\* ep.module_name.startswith("pubtools")
ModuleNameStartsWithPubtools(m) == m \in {"pubtools_quay"}

\* pkg_resources.iter_entry_points("console_scripts"), in iteration order.
ConsoleScripts == << "pubtools_quay", "othertool" >>

\* pkg_resources.iter_entry_points("pubtools.hooks"), in iteration order.
\* pubtools_quay is named by both groups.
PubtoolsHooks == << "hookmod", "pubtools_quay" >>

\* Plugins registered by hook implementations at run time (the "additional
\* hook implementations" of the task_start docstring), not by a module import.
DynamicPlugins == {"session_hooks"}

Plugins == Modules \cup DynamicPlugins

\* Which plugins hold an implementation of which hookspec.
HasImpl(p, hook) ==
    CASE hook = "task_start" -> p \in {"pubtools_quay", "hookmod"}
      [] hook = "task_stop"  -> p \in {"pubtools_quay", "hookmod", "session_hooks"}

(* ------------------------------ values --------------------------------- *)

\* The code of a SystemExit: None (sys.exit() without argument) or an integer.
NoneCode == [isNone |-> TRUE, n |-> 0]
IntCode(n) == [isNone |-> FALSE, n |-> n]
ExitCodes == {NoneCode, IntCode(0), IntCode(2)}

\* `exit.code != 0` as Python evaluates it: None != 0 is True.
CodeNotEqualZero(code) == code.isNone \/ code.n # 0

\* The exit status of a process that ends with SystemExit(code): 0 for None.
ExitStatus(code) == IF code.isNone THEN 0 ELSE code.n

\* "The task is failing (i.e. exiting with non-zero exit code, or raising an
\* exception)": the documented meaning of task_stop's argument.
TaskIsFailing(o) ==
    \/ o.kind \in {"error", "base"}
    \/ o.kind = "exit" /\ ExitStatus(o.code) # 0

\* How the protected block (or a whole session, as its caller sees it) ends.
\*   return: normally;  exit: SystemExit(code);  error: an Exception subclass;
\*   base: a BaseException that is neither (KeyboardInterrupt, GeneratorExit).
Outcome(kind, err, code) == [kind |-> kind, err |-> err, code |-> code]
Returned == Outcome("return", "", NoneCode)
Raised(e) == Outcome("error", e, NoneCode)
RaisedBase(e) == Outcome("base", e, NoneCode)
Exited(code) == Outcome("exit", "SystemExit", code)
NoOutcome == Outcome("none", "", NoneCode)

BlockErrors == {"TaskError", "OSError"}
BaseErrors == {"KeyboardInterrupt"}

\* What an invoked hook implementation does.
HookActs == {"return", "raise", "register", "unregister"}

(* ------------------------------- state --------------------------------- *)

VARIABLES
    broken,       \* modules whose import raises (a packaging defect)
    sysModules,   \* sys.modules: the modules imported so far
    registered,   \* pm: registered plugins, in registration order
    stack,        \* the sessions entered and not yet left, innermost last
    last,         \* the session that has just been left, as its caller sees it
    counts,       \* sessions entered, start dispatches completed, stop dispatches begun
    keptBy,       \* per run-time plugin: the session in which a hook or block
                  \* registered it, 0 once it has been unregistered
    leftover      \* run-time plugins registered in a session whose start
                  \* dispatch then failed, and not unregistered since

vars == << broken, sysModules, registered, stack, last, counts, keptBy, leftover >>

Event(ev, p, arg) == [ev |-> ev, p |-> p, arg |-> arg]
StopArg(failed) == IF failed THEN "failed=True" ELSE "failed=False"

\* A session: the frame of the task_context generator and what it has done.
NewSession ==
    [ id       |-> 0,          \* the session's number, from 1 in order of entry
      pc       |-> "not_started",
      failed   |-> FALSE,      \* the local `failed`; unbound before line 83
      pending  |-> << >>,      \* implementations the running dispatch has yet to call
      snapshot |-> << >>,      \* the call list of the latest dispatch
      atStart  |-> << >>,      \* the registry when the start dispatch began
      atStop   |-> << >>,      \* the registry when the stop dispatch began
      cause    |-> NoOutcome,  \* how the protected block ended
      observed |-> NoOutcome,  \* what the caller of task_context observes
      newInStart |-> {},       \* plugins registered during the start dispatch
      keptAtStop |-> {},       \* run-time plugins kept when the stop dispatch began
      leftAtStop |-> {},       \* leftover when the stop dispatch began
      log      |-> << >> ]

(* --------------------------- the plugin manager ------------------------ *)

RECURSIVE Reverse(_)
Reverse(s) == IF s = << >> THEN << >> ELSE Append(Reverse(Tail(s)), Head(s))

InSeq(x, s) == \E i \in 1 .. Len(s) : s[i] = x

\* pm.register(plugin): the plugin is appended; the caller checks that it is
\* not registered yet (pluggy raises ValueError for a registered plugin).
Register(reg, p) == Append(reg, p)

\* pm.unregister(plugin)
Unregister(reg, p) == SelectSeq(reg, LAMBDA x : x # p)

\* The implementations registered for a hookspec, in registration order.
HookImpls(reg, hook) == SelectSeq(reg, LAMBDA p : HasImpl(p, hook))

\* Mutant of CallList: the earliest registered implementation is called first.
CallListInRegistrationOrder(reg, hook) == HookImpls(reg, hook)

\* The order in which a dispatch pm.hook.<hook>(...) calls the implementations
\* registered at call time: pluggy calls the latest registered first.  The
\* list is taken when the call starts.
CallList(reg, hook) == Reverse(HookImpls(reg, hook))

(* ------------------------------ discovery ------------------------------ *)

\* Mutant of Resolve: an import error is swallowed and discovery goes on.
ResolveSwallowsError(st, m) ==
    IF ~st.ok \/ m \in st.mods \/ m \in broken THEN st
    ELSE [st EXCEPT !.mods = @ \cup {m}, !.reg = Register(@, m)]

\* Mutant of Resolve: the module body runs again on every resolution.
ResolveReimports(st, m) ==
    IF ~st.ok THEN st
    ELSE IF m \in broken THEN [st EXCEPT !.ok = FALSE]
    ELSE [st EXCEPT !.mods = @ \cup {m}, !.reg = Register(@, m)]

\* ep.resolve(): import the module.  A module that is in sys.modules is not
\* executed again; a broken module raises; otherwise the module body runs and
\* registers the module's hook implementations with pm.
Resolve(st, m) ==
    IF ~st.ok \/ m \in st.mods THEN st
    ELSE IF m \in broken THEN [st EXCEPT !.ok = FALSE]
    ELSE [st EXCEPT !.mods = @ \cup {m}, !.reg = Register(@, m)]

\* One `for ep in iter_entry_points(group)` loop; an error leaves the loop.
RECURSIVE ResolveGroup(_, _, _)
ResolveGroup(st, eps, onlyPubtools) ==
    IF eps = << >> \/ ~st.ok THEN st
    ELSE LET m == Head(eps)
             st1 == IF onlyPubtools /\ ~ModuleNameStartsWithPubtools(m)
                    THEN st
                    ELSE Resolve(st, m)
         IN  ResolveGroup(st1, Tail(eps), onlyPubtools)

\* Mutant of ResolveHooks: entering a session starts from an empty registry.
ResolveHooksOnEmptyRegistry(mods, reg) ==
    ResolveGroup(ResolveGroup([mods |-> mods, reg |-> << >>, ok |-> TRUE],
                              ConsoleScripts, TRUE),
                 PubtoolsHooks, FALSE)

\* resolve_hooks(): the console_scripts of pubtools modules, then pubtools.hooks.
ResolveHooks(mods, reg) ==
    ResolveGroup(ResolveGroup([mods |-> mods, reg |-> reg, ok |-> TRUE],
                              ConsoleScripts, TRUE),
                 PubtoolsHooks, FALSE)

(* ------------------------ hook implementations ------------------------- *)

\* What running one hook implementation does to the registry: it returns,
\* raises, or registers / unregisters a plugin d (and then returns).
\* Registering a registered plugin raises ValueError; unregistering a plugin
\* that is not registered changes nothing.
RunHook(reg, act, d) ==
    CASE act = "return" -> [raised |-> FALSE, err |-> "", reg |-> reg]
      [] act = "raise"  -> [raised |-> TRUE, err |-> "HookError", reg |-> reg]
      [] act = "register" ->
            IF InSeq(d, reg)
            THEN [raised |-> TRUE, err |-> "ValueError", reg |-> reg]
            ELSE [raised |-> FALSE, err |-> "", reg |-> Register(reg, d)]
      [] act = "unregister" ->
            [raised |-> FALSE, err |-> "", reg |-> Unregister(reg, d)]

(* ---------------------------- task_context ----------------------------- *)

\* Mutant of FailedAfter: line 86 (failed = False) is missing.
FailedAfterNoReset(failed, o) ==
    CASE o.kind = "exit"   -> CodeNotEqualZero(o.code)
      [] OTHER             -> failed

\* Mutant of FailedAfter: the `except SystemExit` clause is missing.
FailedAfterNoExitClause(failed, o) ==
    CASE o.kind = "return" -> FALSE
      [] OTHER             -> failed

\* Mutant of FailedAfter: `failed` is bound to False before the try statement.
FailedAfterDefaultFalse(failed, o) ==
    CASE o.kind = "return" -> FALSE
      [] o.kind = "exit"   -> CodeNotEqualZero(o.code)
      [] o.kind = "error"  -> TRUE
      [] OTHER             -> FALSE

\* The value of `failed` when the finally clause runs (lines 83-92): False
\* after a normal return, `exit.code != 0` after SystemExit, True after an
\* Exception, and the value bound at line 83 for any other BaseException.
FailedAfter(failed, o) ==
    CASE o.kind = "return" -> FALSE
      [] o.kind = "exit"   -> CodeNotEqualZero(o.code)
      [] o.kind = "error"  -> TRUE
      [] OTHER             -> failed

\* Mutant of Propagated: the `except Exception` clause does not re-raise.
PropagatedSwallowsError(cause, stopRaised, err) ==
    IF stopRaised THEN Raised(err)
    ELSE IF cause.kind = "error" THEN Returned ELSE cause

\* Mutant of Propagated: the `except SystemExit` clause does not re-raise.
PropagatedSwallowsExit(cause, stopRaised, err) ==
    IF stopRaised THEN Raised(err)
    ELSE IF cause.kind = "exit" THEN Returned ELSE cause

\* Mutant of Propagated: an error of the stop dispatch does not replace the
\* error or exit request that was being re-raised.
PropagatedKeepsOriginal(cause, stopRaised, err) ==
    IF stopRaised /\ cause.kind = "return" THEN Raised(err) ELSE cause

\* What leaves the with statement once the finally clause is over: the
\* stop dispatch's own error if an implementation raised, else the block's
\* outcome (the bare `raise` re-raises the exception that was caught).
Propagated(cause, stopRaised, err) ==
    IF stopRaised THEN Raised(err) ELSE cause

BlockOutcomes ==
    {Returned} \cup {Raised(e) : e \in BlockErrors}
      \cup {RaisedBase(e) : e \in BaseErrors}
      \cup {Exited(c) : c \in ExitCodes}

\* Mutant of StopCallList: the registry as it was when the session was entered.
StopCallListAtEntry(f, reg) == CallList(f.atStart, "task_stop")

\* The implementations the task_stop dispatch of session f calls (line 94):
\* those registered when the dispatch begins.
StopCallList(f, reg) == CallList(reg, "task_stop")

\* Mutant of StartFails: the start dispatch is inside the try statement, so
\* the finally clause dispatches task_stop.
StartFailsRunsStop(f, p, err) ==
    [f EXCEPT !.pc = "start_failed",
              !.pending = << >>,
              !.observed = Raised(err),
              !.log = @ \o << Event("start_impl", p, ""),
                              Event("start_raised", p, err),
                              Event("stop_call", "", StopArg(TRUE)) >>]

\* Session f once implementation p of its task_start dispatch has raised err
\* (line 81 is outside the try statement): the error leaves task_context.
StartFails(f, p, err) ==
    [f EXCEPT !.pc = "start_failed",
              !.pending = << >>,
              !.observed = Raised(err),
              !.log = @ \o << Event("start_impl", p, ""),
                              Event("start_raised", p, err) >>]

\* The events of a dispatch that calls each implementation of ps in turn.
RECURSIVE ImplEvents(_, _, _)
ImplEvents(ev, ps, arg) ==
    IF ps = << >> THEN << >>
    ELSE << Event(ev, Head(ps), arg) >> \o ImplEvents(ev, Tail(ps), arg)

\* Mutant of StopFails: the dispatch calls the implementations left to call
\* before it lets the error out.
StopFailsRunsRest(f, p, err) ==
    [f EXCEPT !.pc = "done",
              !.pending = << >>,
              !.observed = Propagated(f.cause, TRUE, err),
              !.log = @ \o ImplEvents("stop_impl", f.pending, StopArg(f.failed))
                        \o << Event("stop_raised", p, err) >>]

\* Session f once implementation p of its task_stop dispatch has raised err
\* (line 94, in the finally clause): the dispatch calls no further
\* implementation and the error leaves task_context.
StopFails(f, p, err) ==
    [f EXCEPT !.pc = "done",
              !.pending = << >>,
              !.observed = Propagated(f.cause, TRUE, err),
              !.log = @ \o << Event("stop_impl", p, StopArg(f.failed)),
                              Event("stop_raised", p, err) >>]

\* keptBy once code of session id has done act on plugin d without raising.
KeptAfter(k, act, d, id) ==
    CASE act = "register"   -> [k EXCEPT ![d] = id]
      [] act = "unregister" -> [k EXCEPT ![d] = 0]
      [] OTHER              -> k

\* leftover once plugin d has been acted on without raising.
LeftoverAfter(l, act, d) == IF act = "unregister" THEN l \ {d} ELSE l

\* Mutant of RegistryAfterStartFails: what the session registered is undone.
RegistryRolledBack(f, reg) == f.atStart

\* The registry once the start dispatch of session f has failed (line 81):
\* nothing is undone, it is as the implementations that ran left it.
RegistryAfterStartFails(f, reg) == reg

\* counts once a session's frame has gone from old to new: a start dispatch
\* that completed and a stop dispatch that began are counted as they happen.
Tally(c, old, new) ==
    LET n(f, ev) == Len(SelectSeq(f.log, LAMBDA e : e.ev = ev))
    IN  [c EXCEPT !.startOk = @ + n(new, "start_done") - n(old, "start_done"),
                  !.stop = @ + n(new, "stop_call") - n(old, "stop_call")]

Top == stack[Len(stack)]
Pop == SubSeq(stack, 1, Len(stack) - 1)
SetTop(f) == [stack EXCEPT ![Len(stack)] = f]
Running(pc) == IF stack = << >> THEN FALSE ELSE Top.pc = pc

Init ==
    /\ broken \in SUBSET Modules
    /\ sysModules = {}
    /\ registered = << >>
    /\ stack = << >>
    /\ last = NewSession
    /\ counts = [entered |-> 0, startOk |-> 0, stop |-> 0]
    /\ keptBy = [d \in DynamicPlugins |-> 0]
    /\ leftover = {}

\* `with task_context():` is entered (lines 79-81): discovery, then the
\* task_start dispatch begins.  A session is entered from the top level or
\* from inside the protected block of the innermost running session.
Enter ==
    /\ Len(stack) < MaxDepth
    /\ counts.entered < MaxSessions
    /\ IF stack = << >> THEN TRUE ELSE Top.pc = "block"
    /\ counts' = [counts EXCEPT !.entered = @ + 1]
    /\ LET st == ResolveHooks(sysModules, registered)
       IN  /\ sysModules' = st.mods
           /\ registered' = st.reg
           /\ IF st.ok
              THEN /\ stack' = Append(stack,
                        [NewSession EXCEPT
                            !.id = counts.entered + 1,
                            !.pc = "start",
                            !.pending = CallList(st.reg, "task_start"),
                            !.snapshot = CallList(st.reg, "task_start"),
                            !.atStart = st.reg,
                            !.log = << Event("resolved", "", ""),
                                       Event("start_call", "", "") >>])
                   /\ last' = NewSession
              ELSE /\ stack' = stack
                   /\ last' = [NewSession EXCEPT
                            !.id = counts.entered + 1,
                            !.pc = "discovery_failed",
                            !.observed = Raised("ImportError"),
                            !.log = << Event("resolve_failed", "", "") >>]
    /\ UNCHANGED << broken, keptBy, leftover >>

\* The task_start dispatch (line 81) calls its next implementation.
StartImpl ==
    /\ Running("start")
    /\ Top.pending # << >>
    /\ \E act \in HookActs, d \in DynamicPlugins :
         LET p == Head(Top.pending)
             r == RunHook(registered, act, d)
             log1 == Append(Top.log, Event("start_impl", p, ""))
         IN  /\ IF r.raised
                THEN /\ registered' = RegistryAfterStartFails(Top, r.reg)
                     /\ stack' = Pop
                     /\ last' = StartFails(Top, p, r.err)
                     /\ counts' = Tally(counts, Top, StartFails(Top, p, r.err))
                     /\ keptBy' = keptBy
                     /\ leftover' = leftover \cup
                            {x \in DynamicPlugins : keptBy[x] = Top.id}
                ELSE /\ registered' = r.reg
                     /\ stack' = SetTop(
                          [Top EXCEPT !.pending = Tail(@),
                                      !.newInStart =
                                          IF act = "register" THEN @ \cup {d} ELSE @,
                                      !.log = log1])
                     /\ last' = last
                     /\ counts' = counts
                     /\ keptBy' = KeptAfter(keptBy, act, d, Top.id)
                     /\ leftover' = LeftoverAfter(leftover, act, d)
    /\ UNCHANGED << broken, sysModules >>

\* The task_start dispatch returns; failed = True (line 83) and the generator
\* yields (line 85): the protected block begins.
StartReturn ==
    /\ Running("start")
    /\ Top.pending = << >>
    /\ stack' = SetTop([Top EXCEPT !.pc = "block",
                                   !.failed = TRUE,
                                   !.log = @ \o << Event("start_done", "", ""),
                                                   Event("block_begin", "", "") >>])
    /\ counts' = Tally(counts, Top, stack'[Len(stack)])
    /\ UNCHANGED << broken, sysModules, registered, last, keptBy, leftover >>

\* The protected block registers or unregisters a plugin with pm.
BlockRegistry ==
    /\ Running("block")
    /\ \E d \in DynamicPlugins :
         \/ /\ ~InSeq(d, registered)
            /\ registered' = Register(registered, d)
            /\ keptBy' = KeptAfter(keptBy, "register", d, Top.id)
            /\ leftover' = LeftoverAfter(leftover, "register", d)
         \/ /\ InSeq(d, registered)
            /\ registered' = Unregister(registered, d)
            /\ keptBy' = KeptAfter(keptBy, "unregister", d, Top.id)
            /\ leftover' = LeftoverAfter(leftover, "unregister", d)
    /\ last' = NewSession
    /\ UNCHANGED << broken, sysModules, stack, counts >>

\* The protected block ends with outcome o (lines 85-94): `failed` is
\* derived and the task_stop dispatch begins in the finally clause.
BlockEnds ==
    /\ Running("block")
    /\ \E o \in BlockOutcomes :
         LET f == FailedAfter(Top.failed, o)
         IN  stack' = SetTop(
                [Top EXCEPT !.pc = "stop",
                            !.cause = o,
                            !.failed = f,
                            !.pending = StopCallList(Top, registered),
                            !.snapshot = StopCallList(Top, registered),
                            !.atStop = registered,
                            !.keptAtStop = {d \in DynamicPlugins : keptBy[d] # 0},
                            !.leftAtStop = leftover,
                            !.log = @ \o << Event("block_end", "", ""),
                                            Event("stop_call", "", StopArg(f)) >>])
    /\ last' = NewSession
    /\ counts' = Tally(counts, Top, stack'[Len(stack)])
    /\ UNCHANGED << broken, sysModules, registered, keptBy, leftover >>

\* The task_stop dispatch (line 94) calls its next implementation with the
\* keyword argument failed.
StopImpl ==
    /\ Running("stop")
    /\ Top.pending # << >>
    /\ \E act \in HookActs, d \in DynamicPlugins :
         LET p == Head(Top.pending)
             r == RunHook(registered, act, d)
             log1 == Append(Top.log, Event("stop_impl", p, StopArg(Top.failed)))
         IN  /\ registered' = r.reg
             /\ IF r.raised
                THEN /\ stack' = Pop
                     /\ last' = StopFails(Top, p, r.err)
                     /\ counts' = Tally(counts, Top, StopFails(Top, p, r.err))
                     /\ keptBy' = keptBy
                     /\ leftover' = leftover
                ELSE /\ stack' = SetTop([Top EXCEPT !.pending = Tail(@),
                                                    !.log = log1])
                     /\ last' = last
                     /\ counts' = counts
                     /\ keptBy' = KeptAfter(keptBy, act, d, Top.id)
                     /\ leftover' = LeftoverAfter(leftover, act, d)
    /\ UNCHANGED << broken, sysModules >>

\* The task_stop dispatch returns; the finally clause is over and the
\* block's outcome leaves the with statement.
StopReturn ==
    /\ Running("stop")
    /\ Top.pending = << >>
    /\ stack' = Pop
    /\ last' = [Top EXCEPT !.pc = "done",
                           !.observed = Propagated(Top.cause, FALSE, ""),
                           !.log = Append(@, Event("stop_done", "", ""))]
    /\ UNCHANGED << broken, sysModules, registered, counts, keptBy, leftover >>

Next ==
    \/ Enter
    \/ StartImpl
    \/ StartReturn
    \/ BlockRegistry
    \/ BlockEnds
    \/ StopImpl
    \/ StopReturn

Spec == Init /\ [][Next]_vars

(* ------------------------------ properties ----------------------------- *)

\* Every session the state holds: those running, and the one just left.
Sessions == {stack[i] : i \in 1 .. Len(stack)} \cup {last}

\* The events of session f's log whose kind is in evs, in order.
Select(f, evs) == SelectSeq(f.log, LAMBDA e : e.ev \in evs)

\* The steps of the controller itself, as opposed to the implementations'.
ControlEvents ==
    {"resolved", "start_call", "start_done", "block_begin", "block_end", "stop_call"}

\* The session has been left: its caller has observed an outcome.
Left(f) == f.observed # NoOutcome

\* The modules resolve_hooks imports.
Candidates ==
    {ConsoleScripts[i] : i \in {j \in 1 .. Len(ConsoleScripts) :
                                  ModuleNameStartsWithPubtools(ConsoleScripts[j])}}
      \cup {PubtoolsHooks[i] : i \in 1 .. Len(PubtoolsHooks)}

\* C1: in a session whose discovery and start dispatch succeed and whose block
\* returns normally, the controller's steps are, in this order and once each:
\* discovery, the task_start dispatch begins and completes, the block begins
\* and ends, task_stop is dispatched with failed=False.
C1_NormalReturnOrder ==
    \A f \in Sessions :
        f.cause.kind = "return" =>
            Select(f, ControlEvents) =
                << Event("resolved", "", ""),
                   Event("start_call", "", ""),
                   Event("start_done", "", ""),
                   Event("block_begin", "", ""),
                   Event("block_end", "", ""),
                   Event("stop_call", "", "failed=False") >>

C1_Witness ==
    /\ last.pc = "done"
    /\ last.cause = Returned
    /\ last.observed = Returned
    /\ Len(Select(last, {"start_impl"})) = 2
    /\ Len(Select(last, {"stop_impl"})) >= 2

\* C2: in a session whose block raises an ordinary error e, task_stop is
\* dispatched exactly once, with failed=True; the caller observes nothing
\* before that dispatch is over; and when no stop implementation raised, the
\* caller observes e itself.
C2_ErrorPropagatesAfterStop ==
    \A f \in Sessions :
        f.cause.kind = "error" =>
            /\ f.cause.err \in BlockErrors
            /\ Select(f, {"stop_call"}) = << Event("stop_call", "", "failed=True") >>
            /\ Left(f) => f.log[Len(f.log)].ev \in {"stop_done", "stop_raised"}
            /\ (Left(f) /\ Select(f, {"stop_raised"}) = << >>) =>
                   f.observed = Raised(f.cause.err)

C2_Witness ==
    /\ last.pc = "done"
    /\ last.cause = Raised("OSError")
    /\ last.observed = Raised("OSError")
    /\ Select(last, {"stop_impl"}) # << >>

\* C3: in a session whose block issues an exit request with an integer code
\* c, task_stop is dispatched exactly once with failed = (c # 0), and when no
\* stop implementation raised the caller observes an exit request with code c.
C3_ExitCodeDecidesFailed ==
    \A f \in Sessions :
        (f.cause.kind = "exit" /\ ~f.cause.code.isNone) =>
            /\ Select(f, {"stop_call"}) =
                   << Event("stop_call", "", StopArg(f.cause.code.n # 0)) >>
            /\ (Left(f) /\ Select(f, {"stop_raised"}) = << >>) =>
                   /\ f.observed.kind = "exit"
                   /\ f.observed.code = IntCode(f.cause.code.n)

C3_Witness ==
    /\ last.pc = "done"
    /\ last.cause = Exited(IntCode(0))
    /\ last.observed = Exited(IntCode(0))
    /\ Select(last, {"stop_impl"}) # << >>
    /\ \A i \in 1 .. Len(last.log) :
           last.log[i].ev = "stop_impl" => last.log[i].arg = "failed=False"

\* C4: when a task_start implementation raises, the session ends there: the
\* block does not run, task_stop is not dispatched and no task_stop
\* implementation is invoked, and the caller observes the error raised.
C4_StartFailureSkipsStop ==
    \A f \in Sessions :
        Select(f, {"start_raised"}) # << >> =>
            /\ f.pc = "start_failed"
            /\ Select(f, {"block_begin", "block_end", "stop_call", "stop_impl"}) = << >>
            /\ f.log[Len(f.log)].ev = "start_raised"
            /\ f.observed = Raised(f.log[Len(f.log)].arg)

C4_Witness ==
    /\ last.pc = "start_failed"
    /\ last.observed = Raised("HookError")
    /\ Len(Select(last, {"start_impl"})) = 2

\* C5: a session whose discovery fails runs no hook implementation and no
\* block, and its caller observes the import error; a session gets past
\* discovery only when no candidate module is broken, and then discovery is
\* the first thing in its log and every candidate module has been imported.
C5_DiscoveryFailureIsFatal ==
    \A f \in Sessions :
        /\ f.pc = "discovery_failed" =>
              /\ f.observed = Raised("ImportError")
              /\ f.log = << Event("resolve_failed", "", "") >>
              /\ Candidates \cap broken # {}
        /\ f.pc \notin {"not_started", "discovery_failed"} =>
              /\ Candidates \cap broken = {}
              /\ Candidates \subseteq sysModules
              /\ f.log[1] = Event("resolved", "", "")

C5_Witness ==
    /\ last.pc = "discovery_failed"
    /\ registered = << "pubtools_quay" >>
    /\ "othertool" \notin sysModules

\* The plugins whose implementations session f's log shows invoked by
\* events of kind ev, in order.
Invoked(f, ev) ==
    [i \in 1 .. Len(Select(f, {ev})) |-> Select(f, {ev})[i].p]

\* The place of x in the sequence s that holds it.
Pos(x, s) == CHOOSE i \in 1 .. Len(s) : s[i] = x

NoDuplicates(s) == \A i, j \in 1 .. Len(s) : s[i] = s[j] => i = j

\* C6: when discovery succeeded and no hook implementation raised, the caller
\* of task_context observes exactly the outcome of the protected block
\* (normal return, the error, or the exit request with its code).
C6_Transparent ==
    \A f \in Sessions :
        (f.pc = "done" /\ Select(f, {"stop_raised"}) = << >>) =>
            /\ f.cause \in BlockOutcomes
            /\ f.observed = f.cause

C6_Witness ==
    /\ last.pc = "done"
    /\ last.cause = Exited(IntCode(2))
    /\ last.observed = Exited(IntCode(2))
    /\ Len(Select(last, {"stop_impl"})) = 3
    /\ Select(last, {"stop_raised"}) = << >>

\* C7: the failed argument of every task_stop dispatch is true exactly when
\* the task is failing: the block raised, or the process exits with a
\* non-zero status.
C7_FailedIffTaskFailing ==
    \A f \in Sessions :
        \A i \in 1 .. Len(f.log) :
            f.log[i].ev = "stop_call" =>
                ((f.log[i].arg = "failed=True") <=> TaskIsFailing(f.cause))

\* C8: the task_stop dispatch of a session calls the implementations that
\* are registered when it begins: a task_stop implementation registered
\* during the session's start dispatch and still registered then is in its
\* call list; every implementation it invokes receives the failed value of
\* the dispatch; and a dispatch that completes has invoked its whole call list.
C8_StopDispatchReadsLiveRegistry ==
    \A f \in Sessions :
        f.pc \in {"stop", "done"} =>
            /\ \A d \in f.newInStart :
                  (InSeq(d, f.atStop) /\ HasImpl(d, "task_stop")) =>
                      InSeq(d, f.snapshot)
            /\ \A i \in 1 .. Len(f.log) :
                  f.log[i].ev = "stop_impl" =>
                      f.log[i].arg = Select(f, {"stop_call"})[1].arg
            /\ f.log[Len(f.log)].ev = "stop_done" =>
                  Invoked(f, "stop_impl") = f.snapshot

C8_Witness ==
    /\ last.pc = "done"
    /\ "session_hooks" \in last.newInStart
    /\ last.cause = Raised("TaskError")
    /\ \E i \in 1 .. Len(last.log) :
           last.log[i] = Event("stop_impl", "session_hooks", "failed=True")

\* C9: discovery is idempotent on the registry: in every state, resolving
\* twice leaves the registry and the imported modules as resolving once
\* does, with every candidate's plugin registered when discovery succeeds;
\* and no plugin is ever registered twice.
C9_DiscoveryIdempotent ==
    LET once == ResolveHooks(sysModules, registered)
        twice == ResolveHooks(once.mods, once.reg)
    IN  /\ twice = once
        /\ once.ok => \A m \in Candidates : InSeq(m, once.reg)
        /\ NoDuplicates(once.reg)
        /\ NoDuplicates(registered)

C9_Witness ==
    /\ Len(stack) = 2
    /\ HookImpls(registered, "task_start") = << "pubtools_quay", "hookmod" >>
    /\ sysModules = {"pubtools_quay", "hookmod"}

\* C10 as stated: in every dispatch, of two implementations invoked the one
\* registered first is invoked first.
C10_RegistrationOrder ==
    \A f \in Sessions :
        LET a == Invoked(f, "start_impl")
            b == Invoked(f, "stop_impl")
        IN  /\ \A i, j \in 1 .. Len(a) :
                  i < j => Pos(a[i], f.atStart) < Pos(a[j], f.atStart)
            /\ \A i, j \in 1 .. Len(b) :
                  i < j => Pos(b[i], f.atStop) < Pos(b[j], f.atStop)

\* C10 as amended: in every dispatch, of two implementations invoked the one
\* registered last is invoked first, and a dispatch that completes has
\* invoked every implementation registered for the spec when it began.
C10_ReverseRegistrationOrder ==
    \A f \in Sessions :
        LET a == Invoked(f, "start_impl")
            b == Invoked(f, "stop_impl")
        IN  /\ \A i, j \in 1 .. Len(a) :
                  i < j => Pos(a[i], f.atStart) > Pos(a[j], f.atStart)
            /\ \A i, j \in 1 .. Len(b) :
                  i < j => Pos(b[i], f.atStop) > Pos(b[j], f.atStop)
            /\ Select(f, {"start_done"}) # << >> =>
                  {a[i] : i \in 1 .. Len(a)} =
                      {p \in Plugins : InSeq(p, f.atStart) /\ HasImpl(p, "task_start")}
            /\ Select(f, {"stop_done"}) # << >> =>
                  {b[i] : i \in 1 .. Len(b)} =
                      {p \in Plugins : InSeq(p, f.atStop) /\ HasImpl(p, "task_stop")}

C10_Witness ==
    /\ last.pc = "done"
    /\ last.atStop = << "pubtools_quay", "hookmod", "session_hooks" >>
    /\ Invoked(last, "start_impl") = << "hookmod", "pubtools_quay" >>
    /\ Invoked(last, "stop_impl") = << "session_hooks", "hookmod", "pubtools_quay" >>

\* The first n elements of s.
Prefix(s, n) == SubSeq(s, 1, n)

\* C11: a dispatch is fail-fast: when an implementation raises, the
\* implementations invoked are the call list up to and including the one that
\* raised, nothing follows the raise in the session, and the caller observes
\* the error at once.
C11_DispatchFailFast ==
    \A f \in Sessions :
        /\ Select(f, {"start_raised"}) # << >> =>
              LET inv == Invoked(f, "start_impl")
              IN  /\ inv = Prefix(f.snapshot, Len(inv))
                  /\ f.log[Len(f.log)] =
                         Event("start_raised", inv[Len(inv)], f.observed.err)
                  /\ Len(Select(f, {"start_raised"})) = 1
        /\ Select(f, {"stop_raised"}) # << >> =>
              LET inv == Invoked(f, "stop_impl")
              IN  /\ inv = Prefix(f.snapshot, Len(inv))
                  /\ f.log[Len(f.log)] =
                         Event("stop_raised", inv[Len(inv)], f.observed.err)
                  /\ Len(Select(f, {"stop_raised"})) = 1
                  /\ f.observed.kind = "error"

C11_Witness ==
    /\ last.pc = "done"
    /\ last.snapshot = << "session_hooks", "hookmod", "pubtools_quay" >>
    /\ Invoked(last, "stop_impl") = << "session_hooks", "hookmod" >>
    /\ last.log[Len(last.log)] = Event("stop_raised", "hookmod", "HookError")

\* The phase of a session.  A session whose discovery failed was aborted
\* before it started.
Phase(f) ==
    CASE f.pc \in {"not_started", "discovery_failed"} -> "NOT_STARTED"
      [] f.pc = "start"        -> "STARTING"
      [] f.pc = "block"        -> "RUNNING"
      [] f.pc = "stop"         -> "STOPPING"
      [] f.pc = "done"         -> "DONE"
      [] f.pc = "start_failed" -> "START_FAILED"

PhaseEdges ==
    { << "NOT_STARTED", "STARTING" >>, << "STARTING", "RUNNING" >>,
      << "RUNNING", "STOPPING" >>, << "STOPPING", "DONE" >>,
      << "STARTING", "START_FAILED" >> }

\* Every step moves each session along an edge of the state machine or
\* leaves its phase alone; a session that appears has just left NOT_STARTED
\* (or was aborted by discovery).
PhaseStep ==
    /\ \A f \in Sessions, g \in Sessions' :
          (f.id # 0 /\ f.id = g.id) =>
              Phase(f) = Phase(g) \/ << Phase(f), Phase(g) >> \in PhaseEdges
    /\ \A g \in Sessions' :
          (g.id # 0 /\ \A f \in Sessions : f.id # g.id) =>
              Phase(g) \in {"NOT_STARTED", "STARTING"}

\* Within one session: at most one start dispatch and one stop dispatch, the
\* stop dispatch only after the start dispatch completed without error.
OneStartOneStop(f) ==
    /\ Len(Select(f, {"start_call"})) <= 1
    /\ Len(Select(f, {"stop_call"})) <= 1
    /\ \A i \in 1 .. Len(f.log) :
          f.log[i].ev = "stop_call" =>
              /\ \E j \in 1 .. i - 1 : f.log[j].ev = "start_done"
              /\ Select(f, {"start_raised"}) = << >>

\* C12: over sessions run one after another or nested, every session moves
\* only along NOT_STARTED -> STARTING -> RUNNING -> STOPPING -> DONE or
\* STARTING -> START_FAILED, has at most one start and one stop dispatch, the
\* stop dispatch after the start dispatch completed, and at every moment the
\* stop dispatches begun are at most the start dispatches completed.
C12_LifecycleStateMachine ==
    /\ [](\A f \in Sessions : OneStartOneStop(f))
    /\ [](counts.stop <= counts.startOk)
    /\ [][PhaseStep]_vars

C12_Witness ==
    /\ Len(stack) = 2
    /\ stack[1].pc = "block"
    /\ stack[2].pc = "stop"
    /\ counts = [entered |-> 3, startOk |-> 2, stop |-> 1]

\* C13: when a task_stop implementation raises s, the caller of task_context
\* observes s, whatever the block's outcome was: s replaces the block's
\* error or exit request, and follows a normal return.
C13_StopErrorShadows ==
    \A f \in Sessions :
        Select(f, {"stop_raised"}) # << >> =>
            /\ f.pc = "done"
            /\ f.cause \in BlockOutcomes
            /\ f.observed = Raised(Select(f, {"stop_raised"})[1].arg)

C13_Witness ==
    /\ last.pc = "done"
    /\ last.cause = Exited(IntCode(2))
    /\ last.observed = Raised("HookError")

\* C15: when the block ends neither by returning nor by an exit request
\* (an Exception, or a BaseException such as KeyboardInterrupt), task_stop is
\* dispatched exactly once with failed=True and, unless a stop implementation
\* raises, the caller observes the block's error; failed=False is passed only
\* after a normal return or an exit request whose code equals 0.
C15_FailedTrueByDefault ==
    \A f \in Sessions :
        /\ f.cause.kind \in {"error", "base"} =>
              /\ Select(f, {"stop_call"}) = << Event("stop_call", "", "failed=True") >>
              /\ \A i \in 1 .. Len(f.log) :
                    f.log[i].ev = "stop_impl" => f.log[i].arg = "failed=True"
              /\ (Left(f) /\ Select(f, {"stop_raised"}) = << >>) =>
                    f.observed = f.cause
        /\ \A i \in 1 .. Len(f.log) :
              (f.log[i].ev \in {"stop_call", "stop_impl"}
                 /\ f.log[i].arg = "failed=False") =>
                  \/ f.cause = Returned
                  \/ f.cause = Exited(IntCode(0))

C15_Witness ==
    /\ last.pc = "done"
    /\ last.cause = RaisedBase("KeyboardInterrupt")
    /\ last.observed = RaisedBase("KeyboardInterrupt")
    /\ Invoked(last, "stop_impl") = << "hookmod", "pubtools_quay" >>

\* Run-time plugin d had its turn in the stop dispatch of session f: it was
\* invoked, is still to be invoked, or an implementation invoked before it
\* raised and ended the dispatch.
HadTurnAtStop(f, d) ==
    \/ InSeq(d, Invoked(f, "stop_impl"))
    \/ InSeq(d, f.pending)
    \/ Select(f, {"stop_raised"}) # << >>

\* A step changes the registry only as discovery, a hook or the block does:
\* a plugin leaves it only by an explicit unregister, and enters it only when
\* discovery first imports its module or a hook or the block registers it.
RegistryStep ==
    \A p \in Plugins :
        /\ (InSeq(p, registered) /\ ~InSeq(p, registered')) =>
              /\ p \in DynamicPlugins
              /\ keptBy[p] # 0
              /\ keptBy'[p] = 0
        /\ (~InSeq(p, registered) /\ InSeq(p, registered')) =>
              \/ p \in sysModules' \ sysModules
              \/ /\ p \in DynamicPlugins
                 /\ keptBy[p] = 0
                 /\ keptBy'[p] # 0

\* C14: the controller never resets the registry: an implementation that a
\* hook or the block registered in some session and that has not been
\* explicitly unregistered is registered in every later state, is in the call
\* list of every later stop dispatch and has its turn there; and every step
\* changes the registry only through discovery, a hook or the block.
C14_RegistryNotReset ==
    /\ [](\A d \in DynamicPlugins : keptBy[d] # 0 => InSeq(d, registered))
    /\ [](\A f \in Sessions : \A d \in f.keptAtStop :
              f.pc \in {"stop", "done"} =>
                  /\ InSeq(d, f.snapshot)
                  /\ HadTurnAtStop(f, d))
    /\ [][RegistryStep]_vars

C14_Witness ==
    /\ last.pc = "done"
    /\ last.id = 3
    /\ keptBy["session_hooks"] = 1
    /\ last.keptAtStop = {"session_hooks"}
    /\ last.newInStart = {}
    /\ InSeq("session_hooks", Invoked(last, "stop_impl"))

\* C16: a session whose start dispatch fails is not rolled back: what its
\* start hooks registered before the failure stays registered, the session
\* dispatches no task_stop, and while such a leftover has not been
\* unregistered it is in the call list of the stop dispatch of every later
\* session that starts successfully and has its turn there.
C16_StartFailedNotRolledBack ==
    /\ \A d \in leftover : InSeq(d, registered)
    /\ last.pc = "start_failed" =>
          /\ Select(last, {"stop_call", "stop_impl"}) = << >>
          /\ \A d \in DynamicPlugins :
                keptBy[d] = last.id =>
                    /\ d \in last.newInStart
                    /\ d \in leftover
                    /\ InSeq(d, registered)
    /\ \A f \in Sessions : \A d \in f.leftAtStop :
          f.pc \in {"stop", "done"} =>
              /\ InSeq(d, f.atStop)
              /\ InSeq(d, StopCallList(f, f.atStop))
              /\ HadTurnAtStop(f, d)

C16_Witness ==
    /\ last.pc = "done"
    /\ last.id = 2
    /\ keptBy["session_hooks"] = 1
    /\ last.leftAtStop = {"session_hooks"}
    /\ last.newInStart = {}
    /\ Invoked(last, "stop_impl")[1] = "session_hooks"

=============================================================================
